---- MODULE Spec2Model ----
(***************************************************************************)
(* PushUP (src/PushUP.mjs): a minimal version-control engine.  The model   *)
(* holds the files under .pushup/ as variables and has one action per      *)
(* command of the PushUP class.  Every command is one CLI process that     *)
(* runs to completion before the next one starts.                          *)
(***************************************************************************)
EXTENDS Integers, Sequences, FiniteSets, TLC

VARIABLES
    objects,         \* .pushup/objects/<digest>: digest d holds objects[d]
    HEAD,            \* .pushup/HEAD: a digest, or Empty
    index,           \* .pushup/index: sequence of [filePath, fileHash]
    CURRENT_BRANCH,  \* .pushup/CURRENT_BRANCH: a branch name
    heads,           \* .pushup/refs/heads/<name>: name -> digest or Empty
    now,             \* the wall clock read by new Date()
    last,            \* the last command run and what it printed
    procs,           \* the commands in flight: where each is, what it has read
    entries          \* the entries of .pushup/ that exist, the refs apart

vars == <<objects, HEAD, index, CURRENT_BRANCH, heads, now, last, procs, entries>>
repo == <<objects, HEAD, index, CURRENT_BRANCH, heads>>

----------------------------------------------------------------------------
(* Bounds and input sets *)

MaxObjects == 3     \* at most MaxObjects objects are stored

Paths == {"a.txt", "b.txt"}
BranchNames == {"main", "feature"}
Messages == {"msg"}

----------------------------------------------------------------------------
(* JavaScript values.  A digest is a positive integer; the three falsy     *)
(* values a digest-typed expression can take are kept apart.               *)

Empty == 0           \* the empty string ''
Null == 0 - 1        \* null
Undefined == 0 - 2   \* undefined (a key that an object does not have)

Falsy(v) == v \in {Empty, Null, Undefined}

\* An object with none of the commit keys.
EmptyObject ==
    [timestamp |-> 0, message |-> <<>>, hasFiles |-> FALSE, files |-> <<>>,
     parent |-> Undefined, mergeParent |-> Undefined]

\* A string that is not JSON text.
Text(s) == [json |-> FALSE, text |-> s, value |-> EmptyObject]

\* JSON.stringify(o): keys whose value is undefined are left out, so the
\* string is determined by the remaining keys.
JSONstringify(o) == [json |-> TRUE, text |-> "", value |-> o]

\* JSON.parse(s) throws a SyntaxError unless s is JSON text.
JSONparseThrows(s) == ~s.json
JSONparse(s) == s.value

\* What the working-tree files contain: a.txt is a text file, b.txt is an
\* empty file.  Neither is JSON text.
FileContents(f) == IF f = "a.txt" THEN {Text("hello")} ELSE {Text("")}

\* What a working-tree file can hold once it has been edited between two
\* adds: its first content or the text "bye".
EditedContents(f) == FileContents(f) \cup {Text("bye")}

\* Truthiness of a string: only '' is falsy.
EmptyString(s) == s = Text("")

----------------------------------------------------------------------------
(* The object store *)

\* The SHA-1 digests of the strings a working-tree file can hold, and of
\* one string that is never stored: the digest is the position in the table.
sha1Table == <<Text("hello"), Text(""), Text("never stored"), Text("bye")>>

\* a digest that does not depend on the content
hashObject_constant(content) == 1

\* hashObject(content): SHA-1 is modelled as collision free and
\* deterministic: a string of the table has the table's digest, any other
\* string (a serialised commit) keeps the digest it is stored under, and
\* gets a digest that nothing else has when it is not stored yet.
hashObject(content) ==
    IF \E d \in DOMAIN sha1Table : sha1Table[d] = content
    THEN CHOOSE d \in DOMAIN sha1Table : sha1Table[d] = content
    ELSE IF \E d \in DOMAIN objects : objects[d] = content
    THEN CHOOSE d \in DOMAIN objects : objects[d] = content
    ELSE Len(sha1Table) + Cardinality(DOMAIN objects \ DOMAIN sha1Table) + 1

\* fs.writeFile(path.join(objectsPath, hash), data), hash = hashObject(data)
writeObject(store, hash, data) ==
    [d \in DOMAIN store \cup {hash} |-> IF d = hash THEN data ELSE store[d]]

\* A digest under which nothing is stored.
MissingHash == hashObject(Text("never stored"))

\* getCommitData(commitHash): the stored string as <<string>>, or <<>> for
\* the null returned when the read fails (also for '' which names the
\* objects directory itself).
getCommitData(commitHash) ==
    IF commitHash \in DOMAIN objects THEN <<objects[commitHash]>> ELSE <<>>

\* !commitData, for what getCommitData returned
NotData(commitData) == commitData = <<>> \/ EmptyString(commitData[1])

\* The stored commits: the objects written by commit and merge.
IsCommit(d) == d \in DOMAIN objects /\ objects[d].json /\ objects[d].value.timestamp > 0
Commits == {d \in DOMAIN objects : IsCommit(d)}

\* fs.writeFile(path.join(branchesPath, name), digest): creates or overwrites
writeRef(refs, name, digest) ==
    [n \in DOMAIN refs \cup {name} |-> IF n = name THEN digest ELSE refs[n]]

----------------------------------------------------------------------------
(* The console: which command ran last and the line it printed *)

Report(op, out) == last' = [op |-> op, out |-> out]

----------------------------------------------------------------------------
(* add *)

\* the entry pushed without the findIndex/splice of the path's old entry
updateStagingArea_pushOnly(idx, filePath, fileHash) ==
    Append(idx, [filePath |-> filePath, fileHash |-> fileHash])

\* updateStagingArea(filePath, fileHash): the index after the call
updateStagingArea(idx, filePath, fileHash) ==
    Append(SelectSeq(idx, LAMBDA item : item.filePath # filePath),
           [filePath |-> filePath, fileHash |-> fileHash])

\* add(fileToBeAdded): readable says whether fs.readFile of the working
\* file succeeds, fileData is what it returns.
add(fileToBeAdded, readable, fileData) ==
    IF ~readable
    THEN /\ Report("add", "Error adding file")
         /\ UNCHANGED <<objects, HEAD, index, CURRENT_BRANCH, heads, now>>
    ELSE LET fileHash == hashObject(fileData) IN
         /\ Cardinality(DOMAIN objects \cup {fileHash}) <= MaxObjects
         /\ objects' = writeObject(objects, fileHash, fileData)
         /\ index' = updateStagingArea(index, fileToBeAdded, fileHash)
         /\ Report("add", "Added the file")
         /\ UNCHANGED <<HEAD, CURRENT_BRANCH, heads, now>>

----------------------------------------------------------------------------
(* commit *)

\* getCurrentHead() and getCurrentBranch(): the files are always readable
getCurrentHead == HEAD
getCurrentBranch == CURRENT_BRANCH

\* Mutant: the parent is the HEAD as read, '' included.
parentOrNull_asRead(parentCommit) == parentCommit

\* parentCommit || null
parentOrNull(parentCommit) == IF Falsy(parentCommit) THEN Null ELSE parentCommit

\* The commitData object literal of commit()
commitData(timestamp, message, files, parentCommit) ==
    [timestamp |-> timestamp, message |-> <<message>>, hasFiles |-> TRUE,
     files |-> files, parent |-> parentOrNull(parentCommit),
     mergeParent |-> Undefined]

\* Mutant: the empty-index test is missing.
NothingToCommit_never(idx) == FALSE

\* The index.length === 0 test of commit()
NothingToCommit(idx) == Len(idx) = 0

\* commit(message).  Each command is a process of its own, so new Date()
\* is later than at every earlier commit.
commit(message) ==
    IF NothingToCommit(index)
    THEN /\ Report("commit", "No changes to commit")
         /\ UNCHANGED <<objects, HEAD, index, CURRENT_BRANCH, heads, now>>
    ELSE /\ Cardinality(DOMAIN objects) < MaxObjects
         /\ now' = now + 1
         /\ LET data == JSONstringify(commitData(now', message, index, getCurrentHead))
                commitHash == hashObject(data)
            IN /\ objects' = writeObject(objects, commitHash, data)
               /\ HEAD' = commitHash
               /\ heads' = writeRef(heads, getCurrentBranch, commitHash)
               /\ index' = <<>>
               /\ Report("commit", "File committed successfully")
         /\ UNCHANGED CURRENT_BRANCH

----------------------------------------------------------------------------
(* log *)

\* The while loop of log() started at currentCommitHash: the digests it
\* prints, and whether it ends by an exception (the object is missing, or
\* its content is not JSON).  fuel bounds the walk by the store's size.
RECURSIVE logWalk(_, _)
logWalk(currentCommitHash, fuel) ==
    IF Falsy(currentCommitHash) THEN [listed |-> <<>>, threw |-> FALSE]
    ELSE IF fuel = 0 \/ currentCommitHash \notin DOMAIN objects
              \/ JSONparseThrows(objects[currentCommitHash])
    THEN [listed |-> <<>>, threw |-> TRUE]
    ELSE LET rest == logWalk(JSONparse(objects[currentCommitHash]).parent, fuel - 1)
         IN [listed |-> <<currentCommitHash>> \o rest.listed, threw |-> rest.threw]

logEntries == logWalk(getCurrentHead, Cardinality(DOMAIN objects))

log ==
    /\ IF Falsy(getCurrentHead)
       THEN Report("log", "No commits found on branch")
       ELSE IF logEntries.threw
       THEN Report("log", "uncaught exception")
       ELSE Report("log", "Commit history for branch")
    /\ UNCHANGED <<objects, HEAD, index, CURRENT_BRANCH, heads, now>>

----------------------------------------------------------------------------
(* branch *)

\* fs.access(path.join(branchesPath, branchName)) succeeds
branchExists(branchName) == branchName \in DOMAIN heads

\* the new ref written with '' whatever HEAD holds
headOrEmpty_alwaysEmpty(head) == Empty

\* getCurrentHead || ''
headOrEmpty(head) == IF Falsy(head) THEN Empty ELSE head

\* branch(branchName, createNew)
branch(branchName, createNew) ==
    IF ~createNew
    THEN /\ Report("branch", "Branches:")
         /\ UNCHANGED <<objects, HEAD, index, CURRENT_BRANCH, heads, now>>
    ELSE IF branchExists(branchName)
    THEN /\ Report("branch", "already exists")
         /\ UNCHANGED <<objects, HEAD, index, CURRENT_BRANCH, heads, now>>
    ELSE /\ heads' = writeRef(heads, branchName, headOrEmpty(getCurrentHead))
         /\ Report("branch", "Created a Branch")
         /\ UNCHANGED <<objects, HEAD, index, CURRENT_BRANCH, now>>

----------------------------------------------------------------------------
(* checkout *)

\* Mutant: the uncommitted-changes test is missing.
UncommittedChanges_never(idx) == FALSE

\* The index.length > 0 test of checkout()
UncommittedChanges(idx) == Len(idx) > 0

\* Mutant: checkout switches the current branch and leaves HEAD.
checkout_keepsHead(branchName) ==
    IF ~branchExists(branchName)
    THEN /\ Report("checkout", "does not exist")
         /\ UNCHANGED <<objects, HEAD, index, CURRENT_BRANCH, heads, now>>
    ELSE IF UncommittedChanges(index)
    THEN /\ Report("checkout", "Cannot switch branches with uncommitted changes")
         /\ UNCHANGED <<objects, HEAD, index, CURRENT_BRANCH, heads, now>>
    ELSE /\ CURRENT_BRANCH' = branchName
         /\ Report("checkout", "Switched to branch")
         /\ UNCHANGED <<objects, HEAD, index, heads, now>>

\* checkout(branchName)
checkout(branchName) ==
    IF ~branchExists(branchName)
    THEN /\ Report("checkout", "does not exist")
         /\ UNCHANGED <<objects, HEAD, index, CURRENT_BRANCH, heads, now>>
    ELSE IF UncommittedChanges(index)
    THEN /\ Report("checkout", "Cannot switch branches with uncommitted changes")
         /\ UNCHANGED <<objects, HEAD, index, CURRENT_BRANCH, heads, now>>
    ELSE LET branchCommit == heads[branchName] IN
         /\ HEAD' = branchCommit
         /\ CURRENT_BRANCH' = branchName
         /\ Report("checkout", "Switched to branch")
         /\ UNCHANGED <<objects, index, heads, now>>

----------------------------------------------------------------------------
(* merge *)

\* JSON.parse(await this.getCommitData(branchCommit)).files throws: the
\* string is not JSON, or the object is missing and JSON.parse(null) is null
mergeReadThrows(branchCommit) ==
    \/ getCommitData(branchCommit) = <<>>
    \/ JSONparseThrows(getCommitData(branchCommit)[1])

\* Mutant: the up-to-date test is missing.
upToDate_never(branchCommit, currentCommit) == FALSE

\* The tests of merge() that end it before anything is written
mergeIntoItself(branchName, currentBranch) == branchName = currentBranch
noCommits(branchCommit) == Falsy(branchCommit)
upToDate(branchCommit, currentCommit) == branchCommit = currentCommit

\* The mergeCommmitData object literal of merge()
mergeCommitData(timestamp, branchName, currentBranch, branchCommitData, currentCommit, branchCommit) ==
    [timestamp |-> timestamp,
     message |-> <<"Merge branch", branchName, "into", currentBranch>>,
     hasFiles |-> branchCommitData.hasFiles,
     files |-> branchCommitData.files,
     parent |-> currentCommit,
     mergeParent |-> branchCommit]

\* merge(branchName)
\* Mutant: the merge commit is written to the ref of the branch merged.
mergedRef_ofTarget(branchName, currentBranch) == branchName

\* path.join(this.branchesPath, currentBranch): the ref merge() writes
mergedRef(branchName, currentBranch) == currentBranch

merge(branchName) ==
    LET currentBranch == getCurrentBranch
        branchCommit == heads[branchName]
        currentCommit == getCurrentHead
    IN
    IF mergeIntoItself(branchName, currentBranch)
    THEN /\ Report("merge", "Cannot merge a branch into itself")
         /\ UNCHANGED <<objects, HEAD, index, CURRENT_BRANCH, heads, now>>
    ELSE IF ~branchExists(branchName)
    THEN /\ Report("merge", "does not exist")
         /\ UNCHANGED <<objects, HEAD, index, CURRENT_BRANCH, heads, now>>
    ELSE IF noCommits(branchCommit)
    THEN /\ Report("merge", "has no commits")
         /\ UNCHANGED <<objects, HEAD, index, CURRENT_BRANCH, heads, now>>
    ELSE IF upToDate(branchCommit, currentCommit)
    THEN /\ Report("merge", "Already up to date")
         /\ UNCHANGED <<objects, HEAD, index, CURRENT_BRANCH, heads, now>>
    ELSE IF mergeReadThrows(branchCommit)
    THEN /\ Report("merge", "does not exist")
         /\ UNCHANGED <<objects, HEAD, index, CURRENT_BRANCH, heads, now>>
    ELSE /\ Cardinality(DOMAIN objects) < MaxObjects
         /\ now' = now + 1
         /\ LET branchCommitData == JSONparse(getCommitData(branchCommit)[1])
                data == JSONstringify(mergeCommitData(now', branchName, currentBranch,
                            branchCommitData, currentCommit, branchCommit))
                mergeCommitHash == hashObject(data)
            IN /\ objects' = writeObject(objects, mergeCommitHash, data)
               /\ HEAD' = mergeCommitHash
               /\ heads' = writeRef(heads, mergedRef(branchName, currentBranch), mergeCommitHash)
               /\ Report("merge", "Merged branch")
         /\ UNCHANGED <<index, CURRENT_BRANCH>>

----------------------------------------------------------------------------
(* deleteBranch *)

\* fs.unlink(path.join(branchesPath, branchName))
unlinkRef(refs, branchName) == [n \in DOMAIN refs \ {branchName} |-> refs[n]]

\* Mutant: the current branch is not protected.
isCurrentBranch_never(branchName, currentBranch) == FALSE

\* Mutant: main is not protected.
isMainBranch_never(branchName) == FALSE

\* The tests of deleteBranch() that protect a branch
isCurrentBranch(branchName, currentBranch) == branchName = currentBranch
isMainBranch(branchName) == branchName = "main"

\* deleteBranch(branchName)
deleteBranch(branchName) ==
    IF isCurrentBranch(branchName, getCurrentBranch)
    THEN /\ Report("deleteBranch", "Cannot delete the current branch")
         /\ UNCHANGED <<objects, HEAD, index, CURRENT_BRANCH, heads, now>>
    ELSE IF isMainBranch(branchName)
    THEN /\ Report("deleteBranch", "Cannot delete the main branch")
         /\ UNCHANGED <<objects, HEAD, index, CURRENT_BRANCH, heads, now>>
    ELSE IF branchExists(branchName)
    THEN /\ heads' = unlinkRef(heads, branchName)
         /\ Report("deleteBranch", "Deleted branch")
         /\ UNCHANGED <<objects, HEAD, index, CURRENT_BRANCH, now>>
    ELSE /\ Report("deleteBranch", "does not exist")
         /\ UNCHANGED <<objects, HEAD, index, CURRENT_BRANCH, heads, now>>

----------------------------------------------------------------------------
(* reset *)

\* Mutant: reset moves HEAD and leaves the current branch's ref.
reset_keepsRef(commitHash) ==
    IF NotData(getCommitData(commitHash))
    THEN /\ Report("reset", "Commit not found")
         /\ UNCHANGED <<objects, HEAD, index, CURRENT_BRANCH, heads, now>>
    ELSE /\ HEAD' = commitHash
         /\ index' = <<>>
         /\ Report("reset", "Reset HEAD to")
         /\ UNCHANGED <<objects, CURRENT_BRANCH, heads, now>>

\* Mutant: reset keeps the staged entries.
reset_keepsIndex(commitHash) ==
    IF NotData(getCommitData(commitHash))
    THEN /\ Report("reset", "Commit not found")
         /\ UNCHANGED <<objects, HEAD, index, CURRENT_BRANCH, heads, now>>
    ELSE /\ HEAD' = commitHash
         /\ heads' = writeRef(heads, getCurrentBranch, commitHash)
         /\ Report("reset", "Reset HEAD to")
         /\ UNCHANGED <<objects, index, CURRENT_BRANCH, now>>

\* reset(commitHash)
reset(commitHash) ==
    IF NotData(getCommitData(commitHash))
    THEN /\ Report("reset", "Commit not found")
         /\ UNCHANGED <<objects, HEAD, index, CURRENT_BRANCH, heads, now>>
    ELSE /\ HEAD' = commitHash
         /\ heads' = writeRef(heads, getCurrentBranch, commitHash)
         /\ index' = <<>>
         /\ Report("reset", "Reset HEAD to")
         /\ UNCHANGED <<objects, CURRENT_BRANCH, now>>

----------------------------------------------------------------------------
(* show, status, diff: the commands that only read *)

\* JSON.parse(await this.getCommitData(commitData.parent)) followed by
\* getParentFileContent: a parent that is not JSON makes JSON.parse throw,
\* a parent that is not stored gives null and null.files throws.
parentReadThrows(parent) ==
    parent \notin DOMAIN objects \/ JSONparseThrows(objects[parent])

\* showCommitDiff(commitHash): JSON.parse(null) is null, "Commit not found";
\* JSON.parse of a stored string that is not JSON throws, and nothing
\* catches it; the parent is read once per file of the commit.
showCommitDiff(commitHash) ==
    /\ LET data == getCommitData(commitHash)
       IN IF data = <<>>
          THEN Report("show", "Commit not found")
          ELSE IF JSONparseThrows(data[1])
          THEN Report("show", "uncaught exception")
          ELSE LET shown == JSONparse(data[1])
               IN IF /\ shown.files # <<>>
                     /\ ~Falsy(shown.parent)
                     /\ parentReadThrows(shown.parent)
                  THEN Report("show", "uncaught exception")
                  ELSE Report("show", "Commit:")
    /\ UNCHANGED <<objects, HEAD, index, CURRENT_BRANCH, heads, now>>

\* status()
status ==
    /\ IF Len(index) = 0
       THEN Report("status", "Nothing staged for commit")
       ELSE Report("status", "Changes staged for commit")
    /\ UNCHANGED <<objects, HEAD, index, CURRENT_BRANCH, heads, now>>

\* diff(): with staged files and a non-empty HEAD, the object HEAD names is
\* parsed with no catch around it.
diff ==
    /\ IF Len(index) = 0
       THEN Report("diff", "No staged changes")
       ELSE IF ~Falsy(getCurrentHead) /\ parentReadThrows(getCurrentHead)
       THEN Report("diff", "uncaught exception")
       ELSE Report("diff", "Staged changes")
    /\ UNCHANGED <<objects, HEAD, index, CURRENT_BRANCH, heads, now>>

----------------------------------------------------------------------------
(* The repository after init() on an empty directory, and the commands *)

\* What init() makes under .pushup/ besides the ref of main
AllEntries == {"objects", "refs/heads", "HEAD", "index", "CURRENT_BRANCH"}

Init ==
    /\ objects = [d \in {} |-> Text("")]
    /\ HEAD = Empty
    /\ index = <<>>
    /\ CURRENT_BRANCH = "main"
    /\ heads = [n \in {"main"} |-> Empty]
    /\ now = 0
    /\ last = [op |-> "init", out |-> "Initialized empty PushUP repository"]
    /\ procs = <<>>
    /\ entries = AllEntries

\* The hashes a user can pass: of any stored object, of nothing stored, ''
Hashes == DOMAIN objects \cup {MissingHash, Empty}

\* One command at a time, each run to completion: no command is in flight.
Next ==
    \/ \E f \in Paths, readable \in BOOLEAN : \E data \in FileContents(f) :
          add(f, readable, data) /\ UNCHANGED <<procs, entries>>
    \/ \E m \in Messages : commit(m) /\ UNCHANGED <<procs, entries>>
    \/ log /\ UNCHANGED <<procs, entries>>
    \/ \E n \in BranchNames, createNew \in BOOLEAN : branch(n, createNew) /\ UNCHANGED <<procs, entries>>
    \/ \E n \in BranchNames : checkout(n) /\ UNCHANGED <<procs, entries>>
    \/ \E n \in BranchNames : merge(n) /\ UNCHANGED <<procs, entries>>
    \/ \E n \in BranchNames : deleteBranch(n) /\ UNCHANGED <<procs, entries>>
    \/ \E h \in Hashes : reset(h) /\ UNCHANGED <<procs, entries>>

Spec == Init /\ [][Next]_vars

----------------------------------------------------------------------------
(* Staging files that are edited between adds *)

NextStage ==
    \/ \E f \in Paths, readable \in BOOLEAN : \E data \in EditedContents(f) :
          add(f, readable, data) /\ UNCHANGED <<procs, entries>>
    \/ \E m \in Messages : commit(m) /\ UNCHANGED <<procs, entries>>

SpecStage == Init /\ [][NextStage]_vars

----------------------------------------------------------------------------
(* Two add commands started together, each a process of its own.  A command
   gives way to the other at every await: after fs.readFile of the working
   file, after fs.writeFile of the object, and in updateStagingArea after
   fs.readFile of the index and after fs.writeFile of the index. *)

\* procs with the record of process p replaced
atProc(p, rec) == [q \in DOMAIN procs |-> IF q = p THEN rec ELSE procs[q]]

\* both commands are launched: `add f1` and `add f2`
startAdds(f1, f2) ==
    /\ procs = <<>>
    /\ procs' = <<[pc |-> "started", file |-> f1, data |-> Text(""), idx |-> <<>>],
                  [pc |-> "started", file |-> f2, data |-> Text(""), idx |-> <<>>]>>
    /\ UNCHANGED <<objects, HEAD, index, CURRENT_BRANCH, heads, now, last>>

\* const fileData = await fs.readFile(fileToBeAdded, ...), or the catch
addReadFile(p, readable, fileData) ==
    /\ p \in DOMAIN procs
    /\ procs[p].pc = "started"
    /\ IF readable
       THEN /\ procs' = atProc(p, [procs[p] EXCEPT !.pc = "fileRead", !.data = fileData])
            /\ UNCHANGED last
       ELSE /\ procs' = atProc(p, [procs[p] EXCEPT !.pc = "failed"])
            /\ Report("add", "Error adding file")
    /\ UNCHANGED <<objects, HEAD, index, CURRENT_BRANCH, heads, now>>

\* await fs.writeFile(newFileHashedObjectPath, fileData)
addWriteObject(p) ==
    /\ p \in DOMAIN procs
    /\ procs[p].pc = "fileRead"
    /\ objects' = writeObject(objects, hashObject(procs[p].data), procs[p].data)
    /\ procs' = atProc(p, [procs[p] EXCEPT !.pc = "objectWritten"])
    /\ UNCHANGED <<HEAD, index, CURRENT_BRANCH, heads, now, last>>

\* const index = JSON.parse(await fs.readFile(this.indexPath, ...))
addReadIndex(p) ==
    /\ p \in DOMAIN procs
    /\ procs[p].pc = "objectWritten"
    /\ procs' = atProc(p, [procs[p] EXCEPT !.pc = "indexRead", !.idx = index])
    /\ UNCHANGED <<objects, HEAD, index, CURRENT_BRANCH, heads, now, last>>

\* the index written from the file as it is at the time of the write
addWriteIndex_rereads(p) ==
    /\ p \in DOMAIN procs
    /\ procs[p].pc = "indexRead"
    /\ index' = updateStagingArea(index, procs[p].file, hashObject(procs[p].data))
    /\ procs' = atProc(p, [procs[p] EXCEPT !.pc = "done"])
    /\ Report("add", "Added the file")
    /\ UNCHANGED <<objects, HEAD, CURRENT_BRANCH, heads, now>>

\* findIndex/splice/push on the copy read, await fs.writeFile(this.indexPath, ...)
addWriteIndex(p) ==
    /\ p \in DOMAIN procs
    /\ procs[p].pc = "indexRead"
    /\ index' = updateStagingArea(procs[p].idx, procs[p].file, hashObject(procs[p].data))
    /\ procs' = atProc(p, [procs[p] EXCEPT !.pc = "done"])
    /\ Report("add", "Added the file")
    /\ UNCHANGED <<objects, HEAD, CURRENT_BRANCH, heads, now>>

NextConcurrentAdd ==
    \/ \E f1, f2 \in Paths : startAdds(f1, f2) /\ UNCHANGED entries
    \/ \E p \in DOMAIN procs, readable \in BOOLEAN :
          \E data \in EditedContents(procs[p].file) : addReadFile(p, readable, data) /\ UNCHANGED entries
    \/ \E p \in DOMAIN procs : addWriteObject(p) /\ UNCHANGED entries
    \/ \E p \in DOMAIN procs : addReadIndex(p) /\ UNCHANGED entries
    \/ \E p \in DOMAIN procs : addWriteIndex(p) /\ UNCHANGED entries

SpecConcurrentAdd == Init /\ [][NextConcurrentAdd]_vars

----------------------------------------------------------------------------
(* A commit taken one write at a time, and killed at any point between two
   writes.  procs holds the record of the commit in flight: the digest it
   computed, the HEAD and the index it read, the tip its branch had when it
   started, and the write it has done last. *)

\* no command is running: none was started, or the last one was killed
Idle == IF procs = <<>> THEN TRUE ELSE procs[1].pc = "crashed"

\* the ref written from the commit's first write on, HEAD never
commitWriteHead_writesRef ==
    /\ procs # <<>>
    /\ procs[1].pc = "objectWritten"
    /\ heads' = writeRef(heads, getCurrentBranch, procs[1].hash)
    /\ procs' = <<[procs[1] EXCEPT !.pc = "headWritten"]>>
    /\ UNCHANGED <<objects, HEAD, index, CURRENT_BRANCH, now, last>>

\* commit(message) up to await fs.writeFile(commitPath, ...)
commitWriteObject(message) ==
    /\ Idle
    /\ IF NothingToCommit(index)
       THEN /\ Report("commit", "No changes to commit")
            /\ procs' = <<>>
            /\ UNCHANGED <<objects, now>>
       ELSE /\ Cardinality(DOMAIN objects) < MaxObjects
            /\ now' = now + 1
            /\ LET data == JSONstringify(commitData(now', message, index, getCurrentHead))
                   commitHash == hashObject(data)
               IN /\ objects' = writeObject(objects, commitHash, data)
                  /\ procs' = <<[pc |-> "objectWritten", at |-> "", hash |-> commitHash,
                                 parent |-> getCurrentHead, tip |-> heads[getCurrentBranch],
                                 idx |-> index]>>
            /\ UNCHANGED last
    /\ UNCHANGED <<HEAD, index, CURRENT_BRANCH, heads>>

\* await fs.writeFile(this.headPath, commitHash)
commitWriteHead ==
    /\ procs # <<>>
    /\ procs[1].pc = "objectWritten"
    /\ HEAD' = procs[1].hash
    /\ procs' = <<[procs[1] EXCEPT !.pc = "headWritten"]>>
    /\ UNCHANGED <<objects, index, CURRENT_BRANCH, heads, now, last>>

\* getCurrentBranch(), await fs.writeFile(branchesPath, commitHash)
commitWriteRef ==
    /\ procs # <<>>
    /\ procs[1].pc = "headWritten"
    /\ heads' = writeRef(heads, getCurrentBranch, procs[1].hash)
    /\ procs' = <<[procs[1] EXCEPT !.pc = "refWritten"]>>
    /\ UNCHANGED <<objects, HEAD, index, CURRENT_BRANCH, now, last>>

\* await fs.writeFile(this.indexPath, JSON.stringify([])), and the report
commitClearIndex ==
    /\ procs # <<>>
    /\ procs[1].pc = "refWritten"
    /\ index' = <<>>
    /\ procs' = <<>>
    /\ Report("commit", "File committed successfully")
    /\ UNCHANGED <<objects, HEAD, CURRENT_BRANCH, heads, now>>

\* the process is killed between two writes
crash ==
    /\ procs # <<>>
    /\ procs[1].pc # "crashed"
    /\ procs' = <<[procs[1] EXCEPT !.pc = "crashed", !.at = procs[1].pc]>>
    /\ UNCHANGED <<objects, HEAD, index, CURRENT_BRANCH, heads, now, last>>

NextCrash ==
    \/ \E m \in Messages : commitWriteObject(m) /\ UNCHANGED entries
    \/ commitWriteHead /\ UNCHANGED entries
    \/ commitWriteRef /\ UNCHANGED entries
    \/ commitClearIndex /\ UNCHANGED entries
    \/ crash /\ UNCHANGED entries
    \/ \E f \in Paths : \E data \in FileContents(f) :
          Idle /\ add(f, TRUE, data) /\ procs' = <<>> /\ UNCHANGED entries
    \/ \E n \in BranchNames : Idle /\ branch(n, TRUE) /\ procs' = <<>> /\ UNCHANGED entries
    \/ \E n \in BranchNames : Idle /\ checkout(n) /\ procs' = <<>> /\ UNCHANGED entries

SpecCrash == Init /\ [][NextCrash]_vars

----------------------------------------------------------------------------
(* All the commands, those that only read included *)

NextAll ==
    \/ Next
    \/ \E h \in Hashes : showCommitDiff(h) /\ UNCHANGED <<procs, entries>>
    \/ status /\ UNCHANGED <<procs, entries>>
    \/ diff /\ UNCHANGED <<procs, entries>>

SpecAll == Init /\ [][NextAll]_vars

----------------------------------------------------------------------------
(* A command from its first instruction.  The action of a CLI command is
   `new PushUP()`, whose constructor calls this.init() and does not await
   it, followed by `await pushup.<command>(...)`.  init() runs to its first
   await and returns a promise nobody waits for; the command then runs to
   its own first await.  From there the two chains of file-system calls
   advance independently: each call of a chain is issued when the one
   before it has completed, and nothing orders a call of init() against a
   call of the command.  procs is here the record of the one process
   running: the next call of init(), where the command is, which command it
   is and what it has read. *)

\* init() has nothing more to do: it has printed, or the process is gone
InitEnded == procs.init \in {"none", "done", "exists", "killed"}

\* the command has nothing more to do
CommandEnded == procs.cmd \in {"none", "done", "failed", "threw"}

\* A directory without .pushup/: no entry exists, and the variables of the
\* files hold what init() would write, unread until the entry exists.
InitNoRepository ==
    /\ objects = [d \in {} |-> Text("")]
    /\ HEAD = Empty
    /\ index = <<>>
    /\ CURRENT_BRANCH = "main"
    /\ heads = [n \in {} |-> Empty]
    /\ now = 0
    /\ last = [op |-> "none", out |-> ""]
    /\ procs = [init |-> "none", cmd |-> "none", op |-> "init", file |-> "a.txt",
                data |-> Text(""), idx |-> <<>>]
    /\ entries = {}

\* `pushup init`, `pushup add <file>` or `pushup commit <message>` is
\* started once the process before it has ended: the constructor has
\* issued the first mkdir of init(), the command has not made a call yet.
launch(op, file) ==
    /\ InitEnded
    /\ CommandEnded
    /\ procs' = [init |-> "mkdirObjects", cmd |-> IF op = "init" THEN "done" ELSE "started",
                 op |-> op, file |-> file, data |-> Text(""), idx |-> <<>>]
    /\ UNCHANGED <<objects, HEAD, index, CURRENT_BRANCH, heads, now, last, entries>>

\* await fs.mkdir(this.objectsPath, { recursive: true })
initMkdirObjects ==
    /\ procs.init = "mkdirObjects"
    /\ entries' = entries \cup {"objects"}
    /\ procs' = [procs EXCEPT !.init = "mkdirHeads"]
    /\ UNCHANGED <<objects, HEAD, index, CURRENT_BRANCH, heads, now, last>>

\* await fs.mkdir(this.branchesPath, { recursive: true })
initMkdirHeads ==
    /\ procs.init = "mkdirHeads"
    /\ entries' = entries \cup {"refs/heads"}
    /\ procs' = [procs EXCEPT !.init = "writeHead"]
    /\ UNCHANGED <<objects, HEAD, index, CURRENT_BRANCH, heads, now, last>>

\* await fs.writeFile(this.headPath, '', { flag: 'wx' }), or the catch
initWriteHead ==
    /\ procs.init = "writeHead"
    /\ IF "HEAD" \in entries
       THEN /\ procs' = [procs EXCEPT !.init = "exists"]
            /\ Report("init", ".pushup folder already exists")
            /\ UNCHANGED <<HEAD, entries>>
       ELSE /\ HEAD' = Empty
            /\ entries' = entries \cup {"HEAD"}
            /\ procs' = [procs EXCEPT !.init = "writeIndex"]
            /\ UNCHANGED last
    /\ UNCHANGED <<objects, index, CURRENT_BRANCH, heads, now>>

\* await fs.writeFile(this.indexPath, JSON.stringify([]), { flag: 'wx' })
initWriteIndex ==
    /\ procs.init = "writeIndex"
    /\ IF "index" \in entries
       THEN /\ procs' = [procs EXCEPT !.init = "exists"]
            /\ Report("init", ".pushup folder already exists")
            /\ UNCHANGED <<index, entries>>
       ELSE /\ index' = <<>>
            /\ entries' = entries \cup {"index"}
            /\ procs' = [procs EXCEPT !.init = "writeCurrentBranch"]
            /\ UNCHANGED last
    /\ UNCHANGED <<objects, HEAD, CURRENT_BRANCH, heads, now>>

\* await fs.writeFile(this.currentBranchPath, 'main', { flag: 'wx' })
initWriteCurrentBranch ==
    /\ procs.init = "writeCurrentBranch"
    /\ IF "CURRENT_BRANCH" \in entries
       THEN /\ procs' = [procs EXCEPT !.init = "exists"]
            /\ Report("init", ".pushup folder already exists")
            /\ UNCHANGED <<CURRENT_BRANCH, entries>>
       ELSE /\ CURRENT_BRANCH' = "main"
            /\ entries' = entries \cup {"CURRENT_BRANCH"}
            /\ procs' = [procs EXCEPT !.init = "writeMain"]
            /\ UNCHANGED last
    /\ UNCHANGED <<objects, HEAD, index, heads, now>>

\* await fs.writeFile(mainBranchPath, '', { flag: 'wx' }) and the report
initWriteMain ==
    /\ procs.init = "writeMain"
    /\ IF "main" \in DOMAIN heads
       THEN /\ procs' = [procs EXCEPT !.init = "exists"]
            /\ Report("init", ".pushup folder already exists")
            /\ UNCHANGED heads
       ELSE /\ heads' = writeRef(heads, "main", Empty)
            /\ procs' = [procs EXCEPT !.init = "done"]
            /\ Report("init", "Initialized empty PushUP repository")
    /\ UNCHANGED <<objects, HEAD, index, CURRENT_BRANCH, now, entries>>

\* add: const fileData = await fs.readFile(fileToBeAdded, ...); the working
\* file is there and is not under .pushup/
runAddReadFile(fileData) ==
    /\ procs.op = "add"
    /\ procs.cmd = "started"
    /\ procs' = [procs EXCEPT !.cmd = "fileRead", !.data = fileData]
    /\ UNCHANGED <<objects, HEAD, index, CURRENT_BRANCH, heads, now, last, entries>>

\* add: await fs.writeFile(newFileHashedObjectPath, fileData); without the
\* objects directory it fails and the catch of add() reports
runAddWriteObject ==
    /\ procs.op = "add"
    /\ procs.cmd = "fileRead"
    /\ IF "objects" \notin entries
       THEN /\ procs' = [procs EXCEPT !.cmd = "failed"]
            /\ Report("add", "Error adding file")
            /\ UNCHANGED objects
       ELSE /\ Cardinality(DOMAIN objects \cup {hashObject(procs.data)}) <= MaxObjects
            /\ objects' = writeObject(objects, hashObject(procs.data), procs.data)
            /\ procs' = [procs EXCEPT !.cmd = "objectWritten"]
            /\ UNCHANGED last
    /\ UNCHANGED <<HEAD, index, CURRENT_BRANCH, heads, now, entries>>

\* updateStagingArea: JSON.parse(await fs.readFile(this.indexPath, ...));
\* without the index file it fails and the catch of add() reports
runAddReadIndex ==
    /\ procs.op = "add"
    /\ procs.cmd = "objectWritten"
    /\ IF "index" \notin entries
       THEN /\ procs' = [procs EXCEPT !.cmd = "failed"]
            /\ Report("add", "Error adding file")
       ELSE /\ procs' = [procs EXCEPT !.cmd = "indexRead", !.idx = index]
            /\ UNCHANGED last
    /\ UNCHANGED <<objects, HEAD, index, CURRENT_BRANCH, heads, now, entries>>

\* updateStagingArea: await fs.writeFile(this.indexPath, ...), the report
runAddWriteIndex ==
    /\ procs.op = "add"
    /\ procs.cmd = "indexRead"
    /\ index' = updateStagingArea(procs.idx, procs.file, hashObject(procs.data))
    /\ entries' = entries \cup {"index"}
    /\ procs' = [procs EXCEPT !.cmd = "done"]
    /\ Report("add", "Added the file")
    /\ UNCHANGED <<objects, HEAD, CURRENT_BRANCH, heads, now>>

\* commit: JSON.parse(await fs.readFile(this.indexPath, ...)); without the
\* index file it throws, and commit() has no catch
runCommitReadIndex ==
    /\ procs.op = "commit"
    /\ procs.cmd = "started"
    /\ IF "index" \notin entries
       THEN /\ procs' = [procs EXCEPT !.cmd = "threw"]
            /\ Report("commit", "uncaught exception")
       ELSE IF NothingToCommit(index)
       THEN /\ procs' = [procs EXCEPT !.cmd = "done"]
            /\ Report("commit", "No changes to commit")
       ELSE /\ procs' = [procs EXCEPT !.cmd = "indexRead", !.idx = index]
            /\ UNCHANGED last
    /\ UNCHANGED <<objects, HEAD, index, CURRENT_BRANCH, heads, now, entries>>

\* commit: the rest of it.  A file in the index was put there by an add
\* that read the index, so the directories, HEAD and the index exist; of
\* init() only the two last wx writes can still be to come, and they give
\* the same files before or after the writes of commit: getCurrentBranch()
\* answers 'main' without the file, and the ref of main is written '' by
\* init() only if commit has not written it.
runCommitWrite(message) ==
    /\ procs.op = "commit"
    /\ procs.cmd = "indexRead"
    /\ Cardinality(DOMAIN objects) < MaxObjects
    /\ now' = now + 1
    /\ LET parentCommit == IF "HEAD" \in entries THEN getCurrentHead ELSE Null
           currentBranch == IF "CURRENT_BRANCH" \in entries THEN getCurrentBranch ELSE "main"
           data == JSONstringify(commitData(now', message, procs.idx, parentCommit))
           commitHash == hashObject(data)
       IN /\ objects' = writeObject(objects, commitHash, data)
          /\ HEAD' = commitHash
          /\ heads' = writeRef(heads, currentBranch, commitHash)
    /\ index' = <<>>
    /\ entries' = entries \cup {"HEAD", "index"}
    /\ procs' = [procs EXCEPT !.cmd = "done"]
    /\ Report("commit", "File committed successfully")
    /\ UNCHANGED CURRENT_BRANCH

\* The rejection of the command's promise is handled by nothing: the
\* runtime may end the process at once, with init() where it is.
killInit ==
    /\ procs.cmd = "threw"
    /\ ~InitEnded
    /\ procs' = [procs EXCEPT !.init = "killed"]
    /\ UNCHANGED <<objects, HEAD, index, CURRENT_BRANCH, heads, now, last, entries>>

NextInit ==
    \/ launch("init", "a.txt")
    \/ \E f \in Paths : launch("add", f)
    \/ launch("commit", "a.txt")
    \/ initMkdirObjects
    \/ initMkdirHeads
    \/ initWriteHead
    \/ initWriteIndex
    \/ initWriteCurrentBranch
    \/ initWriteMain
    \/ \E data \in FileContents(procs.file) : runAddReadFile(data)
    \/ runAddWriteObject
    \/ runAddReadIndex
    \/ runAddWriteIndex
    \/ runCommitReadIndex
    \/ \E m \in Messages : runCommitWrite(m)
    \/ killInit

SpecInit == InitNoRepository /\ [][NextInit]_vars

----------------------------------------------------------------------------
(* Properties *)

\* The objects of the store before a step are kept, with their content.
StoreKept == \A d \in DOMAIN objects : d \in DOMAIN objects' /\ objects'[d] = objects[d]

\* The step stores exactly one new object, c.
OneNewObject(c) ==
    /\ c \notin DOMAIN objects
    /\ DOMAIN objects' = DOMAIN objects \cup {c}
    /\ StoreKept

\* C1: in every state reached by completed commands, HEAD equals the tip
\* stored in the ref of the current branch (both empty when the branch has
\* no commits).
HeadIsCurrentTip ==
    /\ CURRENT_BRANCH \in DOMAIN heads
    /\ HEAD = heads[CURRENT_BRANCH]

\* C1 witness: a merge has moved HEAD and the current branch's tip together.
HeadIsCurrentTipAfterMerge ==
    /\ last = [op |-> "merge", out |-> "Merged branch"]
    /\ HEAD # Empty
    /\ HEAD = heads[CURRENT_BRANCH]

\* C2: in every reachable state every branch ref and HEAD is empty or the
\* digest of a Commit object of the store (so reset moves them only to a
\* stored Commit).
RefsAreCommits ==
    /\ HEAD = Empty \/ IsCommit(HEAD)
    /\ \A n \in DOMAIN heads : heads[n] = Empty \/ IsCommit(heads[n])

\* C3: a commit with a non-empty index stores exactly one new object, a
\* commit whose files are the index entries as they were, in their order,
\* and whose parent is the HEAD before (null when HEAD was empty); HEAD and
\* the current branch's tip are the new commit, the index is empty, and log
\* lists the new commit first.
CommitCreatesCommit ==
    [][\A m \in Messages :
        (commit(m) /\ index # <<>>) =>
            \E c \in DOMAIN objects' :
                /\ OneNewObject(c)
                /\ objects'[c].json
                /\ objects'[c].value.hasFiles
                /\ objects'[c].value.files = index
                /\ objects'[c].value.parent = (IF HEAD = Empty THEN Null ELSE HEAD)
                /\ objects'[c].value.mergeParent = Undefined
                /\ HEAD' = c
                /\ heads'[CURRENT_BRANCH] = c
                /\ CURRENT_BRANCH' = CURRENT_BRANCH
                /\ index' = <<>>
                /\ logEntries'.listed # <<>>
                /\ Head(logEntries'.listed) = c]_vars

\* C3 witness: a commit of two staged files, listed first by log.
CommittedTwoFiles ==
    /\ last = [op |-> "commit", out |-> "File committed successfully"]
    /\ index = <<>>
    /\ IsCommit(HEAD)
    /\ Len(objects[HEAD].value.files) = 2
    /\ Head(logEntries.listed) = HEAD

\* C4: commit with an empty index changes nothing: HEAD, the current
\* branch, every branch tip, the index and the stored objects stay.
CommitEmptyIndexNoop ==
    [][\A m \in Messages : (commit(m) /\ index = <<>>) => UNCHANGED repo]_vars

\* C4 witness: commit found nothing to commit in a repository with history.
CommitFoundNothing ==
    /\ last = [op |-> "commit", out |-> "No changes to commit"]
    /\ index = <<>>
    /\ HEAD # Empty

\* C5: merge of an existing branch other than the current one, whose tip T
\* is not empty and differs from HEAD H, stores exactly one new commit with
\* the files of T, parent H and mergeParent T, moves HEAD and the current
\* branch's tip to it and leaves the merged branch's tip at T.
MergeCreatesCommit ==
    [][\A n \in BranchNames :
        (/\ merge(n)
         /\ n \in DOMAIN heads
         /\ n # CURRENT_BRANCH
         /\ heads[n] # Empty
         /\ heads[n] # HEAD) =>
            \E c \in DOMAIN objects' :
                /\ OneNewObject(c)
                /\ objects'[c].json
                /\ heads[n] \in DOMAIN objects
                /\ objects'[c].value.hasFiles = objects[heads[n]].value.hasFiles
                /\ objects'[c].value.files = objects[heads[n]].value.files
                /\ objects'[c].value.parent = HEAD
                /\ objects'[c].value.mergeParent = heads[n]
                /\ HEAD' = c
                /\ heads'[CURRENT_BRANCH] = c
                /\ heads'[n] = heads[n]]_vars

\* C5 for a tip that is a stored commit: the merge commit is created.
MergeOfCommitCreatesCommit ==
    [][\A n \in BranchNames :
        (/\ merge(n)
         /\ n \in DOMAIN heads
         /\ n # CURRENT_BRANCH
         /\ IsCommit(heads[n])
         /\ heads[n] # HEAD) =>
            \E c \in DOMAIN objects' :
                /\ OneNewObject(c)
                /\ objects'[c].json
                /\ objects'[c].value.hasFiles
                /\ objects'[c].value.files = objects[heads[n]].value.files
                /\ objects'[c].value.parent = HEAD
                /\ objects'[c].value.mergeParent = heads[n]
                /\ HEAD' = c
                /\ heads'[CURRENT_BRANCH] = c
                /\ heads'[n] = heads[n]]_vars

\* C6: merge changes nothing when the named branch is the current one, has
\* no ref, has an empty tip, or has the current HEAD as its tip.
MergeRejectedNoop ==
    [][\A n \in BranchNames :
        (/\ merge(n)
         /\ \/ n = CURRENT_BRANCH
            \/ n \notin DOMAIN heads
            \/ heads[n] = Empty
            \/ heads[n] = HEAD) => UNCHANGED repo]_vars

\* C6 witness: a merge found the other branch up to date with HEAD.
MergeFoundUpToDate ==
    /\ last = [op |-> "merge", out |-> "Already up to date"]
    /\ HEAD # Empty
    /\ \E n \in DOMAIN heads \ {CURRENT_BRANCH} : heads[n] = HEAD

\* C7: checkout with a non-empty index changes nothing, whatever branch is
\* named.
CheckoutDirtyNoop ==
    [][\A n \in BranchNames : (checkout(n) /\ index # <<>>) => UNCHANGED repo]_vars

\* C7 witness: a checkout was refused for staged entries.
CheckoutRefusedDirty ==
    /\ last = [op |-> "checkout", out |-> "Cannot switch branches with uncommitted changes"]
    /\ index # <<>>

\* C8: checkout with an empty index moves HEAD to the named branch's tip
\* and makes it the current branch, changing no tip, object or index entry;
\* for a branch without a ref it changes nothing.
CheckoutSwitches ==
    [][\A n \in BranchNames :
        (checkout(n) /\ index = <<>>) =>
            IF n \in DOMAIN heads
            THEN /\ HEAD' = heads[n]
                 /\ CURRENT_BRANCH' = n
                 /\ UNCHANGED <<heads, objects, index>>
            ELSE UNCHANGED repo]_vars

\* C8 witness: a checkout has switched to a branch whose tip differs from
\* main's.
CheckoutSwitchedToFeature ==
    /\ last = [op |-> "checkout", out |-> "Switched to branch"]
    /\ CURRENT_BRANCH = "feature"
    /\ HEAD = heads["feature"]
    /\ HEAD # heads["main"]

\* C9: reset to the digest of a stored commit moves HEAD and the current
\* branch's tip to it and empties the index.
ResetToCommit ==
    [][\A h \in Commits :
        reset(h) => /\ HEAD' = h
                    /\ heads'[CURRENT_BRANCH] = h
                    /\ index' = <<>>]_vars

\* C9 witness: a reset has moved the current branch to a stored commit that
\* is not the newest one.
ResetMovedToCommit ==
    /\ last = [op |-> "reset", out |-> "Reset HEAD to"]
    /\ IsCommit(HEAD)
    /\ heads[CURRENT_BRANCH] = HEAD
    /\ index = <<>>
    /\ \E c \in Commits : objects[c].value.timestamp > objects[HEAD].value.timestamp

\* C10: deleteBranch changes nothing for the current branch and for main;
\* for another name it removes that ref and nothing else when the ref
\* exists and changes nothing when it does not.
DeleteBranchEffect ==
    [][\A n \in BranchNames :
        deleteBranch(n) =>
            IF n = CURRENT_BRANCH \/ n = "main" \/ n \notin DOMAIN heads
            THEN UNCHANGED repo
            ELSE /\ DOMAIN heads' = DOMAIN heads \ {n}
                 /\ \A k \in DOMAIN heads' : heads'[k] = heads[k]
                 /\ UNCHANGED <<HEAD, CURRENT_BRANCH, index, objects>>]_vars

\* C10 witness: deleting main was refused while another branch was current.
DeleteMainRefused ==
    /\ last = [op |-> "deleteBranch", out |-> "Cannot delete the main branch"]
    /\ CURRENT_BRANCH # "main"
    /\ "main" \in DOMAIN heads

\* C11: branch(name) for a name whose ref exists changes nothing; for a new
\* name it creates that ref with the current HEAD as its tip (empty when
\* there is no commit); either way HEAD, the current-branch pointer, every
\* other ref, the index and the store are as before.
BranchCreateEffect ==
    [][\A n \in BranchNames :
        branch(n, TRUE) =>
            IF n \in DOMAIN heads
            THEN UNCHANGED repo
            ELSE /\ DOMAIN heads' = DOMAIN heads \cup {n}
                 /\ heads'[n] = HEAD
                 /\ \A k \in DOMAIN heads : heads'[k] = heads[k]
                 /\ UNCHANGED <<HEAD, CURRENT_BRANCH, index, objects>>]_vars

\* C11 witness: a branch was created at a HEAD that names a commit.
BranchCreatedAtHead ==
    /\ last = [op |-> "branch", out |-> "Created a Branch"]
    /\ "feature" \in DOMAIN heads
    /\ IsCommit(HEAD)
    /\ heads["feature"] = HEAD

\* C12: the index never holds two entries for one path, and a successful
\* add of a path leaves exactly one entry for it, carrying the digest of
\* the content just added, and keeps the entries of the other paths with
\* their digests.
IndexOneEntryPerPath ==
    /\ [](\A i, j \in DOMAIN index : index[i].filePath = index[j].filePath => i = j)
    /\ [][\A f \in Paths : \A data \in EditedContents(f) :
            add(f, TRUE, data) =>
                /\ \E i \in DOMAIN index' :
                     /\ index'[i] = [filePath |-> f, fileHash |-> hashObject(data)]
                     /\ \A j \in DOMAIN index' : index'[j].filePath = f => j = i
                /\ \A g \in Paths \ {f} :
                     {index[i] : i \in {k \in DOMAIN index : index[k].filePath = g}}
                       = {index'[i] : i \in {k \in DOMAIN index' : index'[k].filePath = g}}]_vars

\* C12 witness: a.txt, staged first as "hello", was staged again as "bye"
\* while b.txt stayed staged.
RestagedEditedFile ==
    /\ last = [op |-> "add", out |-> "Added the file"]
    /\ hashObject(Text("hello")) \in DOMAIN objects
    /\ Len(index) = 2
    /\ index[1] = [filePath |-> "b.txt", fileHash |-> hashObject(Text(""))]
    /\ index[2] = [filePath |-> "a.txt", fileHash |-> hashObject(Text("bye"))]

\* C13: the store is an append-only, content-addressed map: every stored
\* object is stored under the digest of its content, no step removes a
\* stored object or changes its content, and an add of content that is
\* already stored leaves the store exactly as it was.
StoreAppendOnly ==
    /\ [](\A d \in DOMAIN objects : hashObject(objects[d]) = d)
    /\ [][/\ StoreKept
           /\ \A f \in Paths : \A data \in FileContents(f) :
                add(f, TRUE, data) =>
                    /\ hashObject(data) \in DOMAIN objects'
                    /\ objects'[hashObject(data)] = data
                    /\ (\E d \in DOMAIN objects : objects[d] = data) => objects' = objects]_vars

\* C13 witness: a.txt was staged again with the content that an earlier
\* commit had already stored, and the blob still reads "hello".
AddedStoredContentAgain ==
    /\ last = [op |-> "add", out |-> "Added the file"]
    /\ index = <<[filePath |-> "a.txt", fileHash |-> hashObject(Text("hello"))]>>
    /\ \E c \in Commits : \E i \in DOMAIN objects[c].value.files :
           objects[c].value.files[i].filePath = "a.txt"
    /\ objects[hashObject(Text("hello"))] = Text("hello")

\* C14: log run on an empty HEAD reports that there are no commits and
\* lists nothing; run on a non-empty HEAD it ends normally and lists
\* exactly the first-parent chain: HEAD first, then each listed commit's
\* parent, down to a commit without a parent, so that a commit reachable
\* only through mergeParent is not listed.
LogListsFirstParentChain ==
    [][log =>
        IF HEAD = Empty
        THEN last'.out = "No commits found on branch"
        ELSE /\ last'.out = "Commit history for branch"
             /\ LET listed == logEntries.listed
                IN /\ listed # <<>>
                   /\ listed[1] = HEAD
                   /\ \A i \in DOMAIN listed :
                        /\ IsCommit(listed[i])
                        /\ IF i < Len(listed)
                           THEN listed[i + 1] = objects[listed[i]].value.parent
                           ELSE Falsy(objects[listed[i]].value.parent)]_vars

\* When HEAD and every parent in the store name commits, log does list the
\* first-parent chain.
LogOfCommitsListsChain ==
    [][(/\ log
        /\ IsCommit(HEAD)
        /\ \A c \in Commits : Falsy(objects[c].value.parent) \/ IsCommit(objects[c].value.parent)) =>
        /\ last'.out = "Commit history for branch"
        /\ LET listed == logEntries.listed
           IN /\ listed # <<>>
              /\ listed[1] = HEAD
              /\ \A i \in DOMAIN listed :
                   /\ IsCommit(listed[i])
                   /\ IF i < Len(listed)
                      THEN listed[i + 1] = objects[listed[i]].value.parent
                      ELSE Falsy(objects[listed[i]].value.parent)]_vars

\* The index entry that process p stages, and whether a sequence holds e.
entryOf(p) == [filePath |-> procs[p].file, fileHash |-> hashObject(procs[p].data)]
Holds(idx, e) == \E i \in DOMAIN idx : idx[i] = e

\* C15: two adds running together are not serialised on the index: each
\* writes the copy it read with its own entry put in, whatever was written
\* since, so the last writer wins.  When both have completed on different
\* paths, an entry is missing from the index only if the other process
\* read the index before that entry was written and wrote after it; the
\* other's entry is then the only one the index holds.
LastWriterWins ==
    /\ [][\A p \in DOMAIN procs :
            addWriteIndex(p) =>
                index' = Append(SelectSeq(procs[p].idx, LAMBDA item : item.filePath # procs[p].file),
                                entryOf(p))]_vars
    /\ [](\A p, q \in DOMAIN procs :
            (/\ procs[p].pc = "done" /\ procs[q].pc = "done"
             /\ procs[p].file # procs[q].file
             /\ ~Holds(index, entryOf(p))) =>
                /\ index = <<entryOf(q)>>
                /\ ~Holds(procs[q].idx, entryOf(p)))

\* C15 witness: both adds completed, on different paths, and the index
\* holds the entry of one of them only.
LostIndexEntry ==
    /\ DOMAIN procs = {1, 2}
    /\ procs[1].pc = "done" /\ procs[2].pc = "done"
    /\ procs[1].file # procs[2].file
    /\ Len(index) = 1
    /\ \E p \in DOMAIN procs : index[1] = entryOf(p)

\* C16: commit writes the commit object, then HEAD, then the ref of the
\* current branch, then the empty index.  At every point between two
\* writes, and when the commit is killed there, the object is stored, HEAD
\* and every ref hold '' or the digest of a stored object, the ref holds
\* the new commit only if HEAD does, and after the HEAD write and before
\* the ref write HEAD is the new commit while the ref holds the old tip.
CommitWriteOrder ==
    /\ HEAD \in DOMAIN objects \cup {Empty}
    /\ \A n \in DOMAIN heads : heads[n] \in DOMAIN objects \cup {Empty}
    /\ procs # <<>> =>
         LET r == procs[1]
             point == IF r.pc = "crashed" THEN r.at ELSE r.pc
             ref == heads[CURRENT_BRANCH]
         IN /\ r.hash \in DOMAIN objects
            /\ r.hash # r.tip
            /\ ref = r.hash => HEAD = r.hash
            /\ index = r.idx /\ index # <<>>
            /\ point = "objectWritten" => HEAD = r.parent /\ ref = r.tip
            /\ point = "headWritten" => HEAD = r.hash /\ ref = r.tip
            /\ point = "refWritten" => HEAD = r.hash /\ ref = r.hash

\* C16 witness: a commit on a branch that has a commit was killed after
\* its HEAD write: HEAD is the new commit, the ref is the old tip.
CrashedAfterHeadWrite ==
    /\ procs # <<>>
    /\ procs[1].pc = "crashed" /\ procs[1].at = "headWritten"
    /\ IsCommit(heads[CURRENT_BRANCH])
    /\ HEAD = procs[1].hash
    /\ HEAD # heads[CURRENT_BRANCH]

\* C17: no command ends by an uncaught exception, whatever its argument,
\* and show of a hash that names no stored commit (nothing stored under
\* it, or a blob) reports that the commit is not found and changes
\* nothing.
NoUncaughtFailure ==
    [][/\ last'.out # "uncaught exception"
       /\ \A h \in Hashes :
            (showCommitDiff(h) /\ ~IsCommit(h)) =>
                last'.out = "Commit not found" /\ UNCHANGED repo]_vars

\* C18: in every state the current-branch pointer names a branch that has
\* a ref, and the ref of "main" exists.
CurrentBranchHasRef ==
    /\ CURRENT_BRANCH \in BranchNames
    /\ CURRENT_BRANCH \in DOMAIN heads
    /\ "main" \in DOMAIN heads

\* C18 witness: the deletion of the branch checked out, which is not main,
\* was refused.
DeleteCurrentRefused ==
    /\ last = [op |-> "deleteBranch", out |-> "Cannot delete the current branch"]
    /\ CURRENT_BRANCH = "feature"
    /\ DOMAIN heads = {"main", "feature"}

\* C19: every stored commit has a parent that is null or names a commit
\* stored before it (an older one), so that the parent relation has no
\* cycle and every first-parent walk ends at a commit whose parent is null;
\* also for a merge into a branch without commits and for a commit made
\* after a reset.
ParentChainIntegrity ==
    \A c \in Commits :
        \/ objects[c].value.parent = Null
        \/ /\ IsCommit(objects[c].value.parent)
           /\ objects[objects[c].value.parent].value.timestamp < objects[c].value.timestamp

\* A merge into a branch without commits stores '' as the parent.
NoEmptyParent == \A c \in Commits : objects[c].value.parent # Empty

\* C20: every step is one command, named by what it reports.  A step of
\* commit, merge or reset keeps the set of refs and the tip
\* of every branch other than the current one; a step of add, checkout,
\* log, show, status, diff or branch listing keeps every tip; a step of
\* merge keeps the index.
TipsMoveOnlyWhenCurrent ==
    [][/\ last'.op \in {"commit", "merge", "reset"} =>
              /\ DOMAIN heads' = DOMAIN heads
              /\ \A n \in DOMAIN heads \ {CURRENT_BRANCH} : heads'[n] = heads[n]
       /\ (\/ last'.op \in {"add", "checkout", "log", "show", "status", "diff"}
           \/ last' = [op |-> "branch", out |-> "Branches:"]) => heads' = heads
       /\ last'.op = "merge" => index' = index]_vars

\* C20 witness: a merge made with files staged moved the current branch
\* to the merge commit; the branch merged kept its tip and the index its
\* entries.
MergedWithStagedFiles ==
    /\ last = [op |-> "merge", out |-> "Merged branch"]
    /\ index # <<>>
    /\ IsCommit(HEAD)
    /\ ~Falsy(objects[HEAD].value.mergeParent)
    /\ \E n \in DOMAIN heads \ {CURRENT_BRANCH} : heads[n] = objects[HEAD].value.mergeParent

\* A step of init() leaves every file that exists as it is.
InitOverwritesNothing ==
    [][(\/ initMkdirObjects \/ initMkdirHeads \/ initWriteHead
        \/ initWriteIndex \/ initWriteCurrentBranch \/ initWriteMain) =>
           /\ "HEAD" \in entries => HEAD' = HEAD
           /\ "index" \in entries => index' = index
           /\ "CURRENT_BRANCH" \in entries => CURRENT_BRANCH' = CURRENT_BRANCH
           /\ "main" \in DOMAIN heads => heads'["main"] = heads["main"]
           /\ objects' = objects]_vars

\* C21: a command has made its first read or write under .pushup/ only if
\* the init() started by its constructor has completed (it has created the
\* repository or found it there), also for the first command run in a
\* directory without a repository; and no step of init() changes a HEAD,
\* index, CURRENT_BRANCH or main ref that exists.
CommandSeesInitialisedRepository ==
    /\ []((/\ procs.op \in {"add", "commit"}
           /\ procs.cmd \in {"objectWritten", "indexRead", "done", "failed", "threw"}) =>
              procs.init \in {"done", "exists"})
    /\ InitOverwritesNothing

====
